---------------------------- MODULE Spec2Model ----------------------------
(***************************************************************************)
(* A model of the delaunay-mesh crate: the free-list arena (src/arena.rs), *)
(* the geometry primitives (src/geo.rs), the 4-ary bounding volume         *)
(* hierarchy (src/bvh.rs) and the half-edge Delaunay mesh built on them    *)
(* (src/mesh.rs, declared by src/lib.rs).                                  *)
(*                                                                         *)
(* f64 coordinates are modelled by exact integers: every input of the      *)
(* model is an integer point and every derived quantity that the code      *)
(* obtains by a division is kept as a numerator/denominator pair, so the   *)
(* comparisons of the code are decided exactly. Floating-point rounding is *)
(* modelled for the barycentric coordinates alone, at a reduced precision. *)
(***************************************************************************)
EXTENDS Integers, Sequences, FiniteSets, TLC

VARIABLES
    arena,      \* Arena<u32> under test: [data, first_free]
    shadow,     \* ghost: live handle (index) -> value last written through it
    pushOrder,  \* ghost: the live handles in the order their values were pushed
    freed,      \* ghost: the handles removed and not handed out again since,
                \* in the order of their removal
    aret,       \* the last arena operation and what it returned
    apanic,     \* "none", or the panic that ended the arena program
    bvh,        \* Bvh<Elem> under test: its root node
    stored,     \* ghost: the elements inserted and not removed since
    bops,       \* number of Bvh::insert / Bvh::remove calls made
    bret,       \* the last bvh operation and what it yielded
    mesh,       \* DelaunayMesh: [vertices, hedges, faces, bvh, bbox]
    calls,      \* number of DelaunayMesh::insert calls made
    mret,       \* the last mesh operation, its argument, its result and the
                \* bvh operations it made, in order
    cascade,    \* the insert in progress, flip by flip: [pc, work, v, flipped]
    gin,        \* the triangle and the point last handed to the geometry
    gout,       \* the last geometry operation and what it returned
    sbox       \* the box under split: [op, a, b, bbox, children]

arenaVars == <<arena, shadow, pushOrder, freed, aret, apanic>>

bvhVars == <<bvh, stored, bops, bret>>

meshVars == <<mesh, calls, mret>>

flipVars == <<cascade>>

geoVars == <<gin, gout, sbox>>

vars == <<arena, shadow, pushOrder, freed, aret, apanic, bvh, stored, bops,
          bret, mesh, calls, mret, cascade, gin, gout, sbox>>

(***************************************************************************)
(* Option<T>                                                               *)
(***************************************************************************)
None == [tag |-> "None"]

Some(x) == [tag |-> "Some", val |-> x]

IsSome(o) == o.tag = "Some"

(***************************************************************************)
(* src/arena.rs                                                            *)
(***************************************************************************)
\* Length cap of the backing vector of the arena under test.
MaxArenaLen == 3

\* Values pushed into the arena under test.
ArenaVals == {42, 73}

Free(nf) == [kind |-> "Free", next_free |-> nf]

Occupied(v) == [kind |-> "Occupied", val |-> v]

ArenaNew == [data |-> <<>>, first_free |-> None]

\* Vec::get: is ix an index of the backing vector (ArenaId.ix is 0-based).
InRange(a, ix) == ix >= 0 /\ ix < Len(a.data)

Slot(a, ix) == a.data[ix + 1]

\* Arena::push that never takes a slot off the free list.
ArenaPushAlwaysGrows(a, v) ==
    [arena |-> [a EXCEPT !.data = Append(@, Occupied(v))],
     id |-> Len(a.data), panic |-> "none"]

\* Arena::push without `self.first_free = next_free`: the slot taken off the
\* free list stays at its head.
ArenaPushKeepsFreeHead(a, v) ==
    IF a.first_free.tag = "None"
    THEN [arena |-> [a EXCEPT !.data = Append(@, Occupied(v))],
          id |-> Len(a.data), panic |-> "none"]
    ELSE [arena |-> [a EXCEPT !.data[a.first_free.val + 1] = Occupied(v)],
          id |-> a.first_free.val, panic |-> "none"]

\* Arena::push: [arena, id, panic].
ArenaPush(a, v) ==
    IF a.first_free.tag = "None"
    THEN [arena |-> [a EXCEPT !.data = Append(@, Occupied(v))],
          id |-> Len(a.data), panic |-> "none"]
    ELSE LET f == a.first_free.val
         IN  IF ~InRange(a, f)
             THEN [arena |-> a, id |-> f, panic |-> "index"]
             ELSE IF Slot(a, f).kind = "Free"
             THEN [arena |-> [data |-> [a.data EXCEPT ![f + 1] = Occupied(v)],
                              first_free |-> Slot(a, f).next_free],
                   id |-> f, panic |-> "none"]
             ELSE [arena |-> a, id |-> f, panic |-> "bug"]

\* An Arena::remove that hands out the value and leaves the slot occupied.
ArenaRemoveKeepsSlot(a, ix) ==
    [arena |-> a,
     out   |-> IF InRange(a, ix) /\ Slot(a, ix).kind = "Occupied"
               THEN Some(Slot(a, ix).val) ELSE None]

\* Arena::remove without its Node::Free arm: a free slot is freed again.
ArenaRemoveAnySlot(a, ix) ==
    IF ~InRange(a, ix)
    THEN [arena |-> a, out |-> None]
    ELSE [arena |-> [data |-> [a.data EXCEPT ![ix + 1] = Free(a.first_free)],
                     first_free |-> Some(ix)],
          out |-> IF Slot(a, ix).kind = "Occupied"
                  THEN Some(Slot(a, ix).val) ELSE None]

\* Arena::remove: [arena, out].
ArenaRemove(a, ix) ==
    IF ~InRange(a, ix)
    THEN [arena |-> a, out |-> None]
    ELSE IF Slot(a, ix).kind = "Occupied"
    THEN [arena |-> [data |-> [a.data EXCEPT ![ix + 1] = Free(a.first_free)],
                     first_free |-> Some(ix)],
          out |-> Some(Slot(a, ix).val)]
    ELSE [arena |-> a, out |-> None]

\* Arena::get (and the lookup half of Arena::get_mut).
ArenaGet(a, ix) ==
    IF ~InRange(a, ix)
    THEN None
    ELSE IF Slot(a, ix).kind = "Occupied"
    THEN Some(Slot(a, ix).val)
    ELSE None

\* A write through the reference that is lost.
ArenaSetNothing(a, ix, v) == a

\* Writing v through the reference Arena::get_mut / IndexMut returns.
ArenaSet(a, ix, v) == [a EXCEPT !.data[ix + 1] = Occupied(v)]

\* Arena::enumerate: the (id, value) pairs in vector order, free slots skipped.
RECURSIVE EnumerateFrom(_, _)
EnumerateFrom(a, i) ==
    IF i >= Len(a.data)
    THEN <<>>
    ELSE IF Slot(a, i).kind = "Occupied"
    THEN <<[id |-> i, val |-> Slot(a, i).val]>> \o EnumerateFrom(a, i + 1)
    ELSE EnumerateFrom(a, i + 1)

\* Arena::enumerate starting after the first slot.
ArenaEnumerateSkipsFirst(a) == EnumerateFrom(a, 1)

ArenaEnumerate(a) == EnumerateFrom(a, 0)

\* The handles Arena::enumerate yields.
LiveIds(a) == {ArenaEnumerate(a)[k].id : k \in 1..Len(ArenaEnumerate(a))}

\* Arena::iter: enumerate().map(|(_, n)| n).
ArenaIter(a) == [k \in 1..Len(ArenaEnumerate(a)) |-> ArenaEnumerate(a)[k].val]

(***************************************************************************)
(* The arena program: any sequence of push, remove, get, get_mut and       *)
(* index assignment, with handles that may be stale or out of range.       *)
(***************************************************************************)
ArenaIds == 0..MaxArenaLen

otherThanArena == <<bvhVars, meshVars, flipVars, geoVars>>

SeqWithout(s, x) == SelectSeq(s, LAMBDA y : y # x)

ArenaInit ==
    /\ arena = ArenaNew
    /\ shadow = << >>
    /\ pushOrder = << >>
    /\ freed = << >>
    /\ aret = [op |-> "new", id |-> 0, valid |-> TRUE, ret |-> None]
    /\ apanic = "none"

Push(v) ==
    /\ apanic = "none"
    /\ \/ arena.first_free.tag = "Some"
       \/ Len(arena.data) < MaxArenaLen
    /\ LET r == ArenaPush(arena, v)
       IN  /\ arena' = r.arena
           /\ apanic' = r.panic
           /\ shadow' = IF r.panic = "none"
                        THEN [h \in DOMAIN shadow \cup {r.id} |->
                                 IF h \in DOMAIN shadow THEN shadow[h] ELSE v]
                        ELSE shadow
           /\ pushOrder' = IF r.panic = "none"
                           THEN Append(SeqWithout(pushOrder, r.id), r.id)
                           ELSE pushOrder
           /\ freed' = IF r.panic = "none"
                       THEN SeqWithout(freed, r.id)
                       ELSE freed
           /\ aret' = [op |-> "push", id |-> r.id, valid |-> TRUE,
                       ret |-> Some(r.id)]
    /\ UNCHANGED otherThanArena

Remove(ix) ==
    /\ apanic = "none"
    /\ LET r == ArenaRemove(arena, ix)
       IN  /\ arena' = r.arena
           /\ shadow' = [h \in DOMAIN shadow \ {ix} |-> shadow[h]]
           /\ pushOrder' = SeqWithout(pushOrder, ix)
           /\ freed' = IF IsSome(ArenaGet(arena, ix))
                       THEN Append(freed, ix)
                       ELSE freed
           /\ aret' = [op |-> "remove", id |-> ix,
                       valid |-> IsSome(ArenaGet(arena, ix)), ret |-> r.out]
    /\ UNCHANGED <<apanic, otherThanArena>>

Get(ix) ==
    /\ apanic = "none"
    /\ aret' = [op |-> "get", id |-> ix, valid |-> IsSome(ArenaGet(arena, ix)),
                ret |-> ArenaGet(arena, ix)]
    /\ UNCHANGED <<arena, shadow, pushOrder, freed, apanic, otherThanArena>>

GetMut(ix) ==
    /\ apanic = "none"
    /\ aret' = [op |-> "get_mut", id |-> ix, valid |-> IsSome(ArenaGet(arena, ix)),
                ret |-> ArenaGet(arena, ix)]
    /\ UNCHANGED <<arena, shadow, pushOrder, freed, apanic, otherThanArena>>

\* arena[id] = v: IndexMut::index_mut is get_mut(ix).unwrap(), then the write.
IndexAssign(ix, v) ==
    /\ apanic = "none"
    /\ IF IsSome(ArenaGet(arena, ix))
       THEN /\ arena' = ArenaSet(arena, ix, v)
            /\ shadow' = [shadow EXCEPT ![ix] = v]
            /\ apanic' = apanic
       ELSE /\ apanic' = "unwrap"
            /\ UNCHANGED <<arena, shadow>>
    /\ aret' = [op |-> "index_mut", id |-> ix, valid |-> IsSome(ArenaGet(arena, ix)),
                ret |-> None]
    /\ UNCHANGED <<pushOrder, freed, otherThanArena>>

ArenaNext ==
    \/ \E v \in ArenaVals : Push(v)
    \/ \E ix \in ArenaIds : Remove(ix)
    \/ \E ix \in ArenaIds : Get(ix)
    \/ \E ix \in ArenaIds : GetMut(ix)
    \/ \E ix \in ArenaIds, v \in ArenaVals : IndexAssign(ix, v)

(***************************************************************************)
(* src/geo.rs: Vec2 and Bbox                                               *)
(***************************************************************************)
Vec2(x, y) == [x |-> x, y |-> y]

Max(a, b) == IF a >= b THEN a ELSE b

Min(a, b) == IF a <= b THEN a ELSE b

\* Bbox::new
BboxNew(p) == [min |-> p, max |-> p]

\* Bbox::center: (min + max) / 2.0. The boxes the model splits have even
\* sums min + max, so the division is exact.
BboxCenter(b) == Vec2((b.min.x + b.max.x) \div 2, (b.min.y + b.max.y) \div 2)

\* A split around the point one unit off the min corner instead of p.
BboxSplitLopsided(b, p) ==
    << [min |-> b.min, max |-> Vec2(b.min.x + 1, b.min.y + 1)],
       [min |-> Vec2(b.min.x + 1, b.min.y),
        max |-> Vec2(b.max.x, b.min.y + 1)],
       [min |-> Vec2(b.min.x, b.min.y + 1),
        max |-> Vec2(b.min.x + 1, b.max.y)],
       [min |-> Vec2(b.min.x + 1, b.min.y + 1), max |-> b.max] >>

\* Bbox::split: the four quadrants around p, in the code's order.
BboxSplit(b, p) ==
    << [min |-> b.min, max |-> p],
       [min |-> Vec2(p.x, b.min.y), max |-> Vec2(b.max.x, p.y)],
       [min |-> Vec2(b.min.x, p.y), max |-> Vec2(p.x, b.max.y)],
       [min |-> p, max |-> b.max] >>

\* Bbox::expand
BboxExpand(b, p) ==
    [min |-> Vec2(Min(b.min.x, p.x), Min(b.min.y, p.y)),
     max |-> Vec2(Max(b.max.x, p.x), Max(b.max.y, p.y))]

\* Bbox::enlarge
BboxEnlarge(b, amount) ==
    [min |-> Vec2(b.min.x - amount, b.min.y - amount),
     max |-> Vec2(b.max.x + amount, b.max.y + amount)]

\* Bbox::contains
BboxContains(b, p) ==
    b.min.x <= p.x /\ b.min.y <= p.y /\ b.max.x >= p.x /\ b.max.y >= p.y

\* Bbox::intersection
BboxIntersection(b, other) ==
    LET min_x == Max(b.min.x, other.min.x)
        min_y == Max(b.min.y, other.min.y)
        max_x == Min(b.max.x, other.max.x)
        max_y == Min(b.max.y, other.max.y)
    IN  IF min_x > max_x \/ min_y > max_y
        THEN None
        ELSE Some([min |-> Vec2(min_x, min_y), max |-> Vec2(max_x, max_y)])

\* Bbox::dimensions
BboxDimensions(b) == Vec2(b.max.x - b.min.x, b.max.y - b.min.y)

\* Bbox::area
BboxArea(b) == BboxDimensions(b).x * BboxDimensions(b).y

(***************************************************************************)
(* src/geo.rs: Circle and BarycentricCoords                                *)
(***************************************************************************)
Abs(n) == IF n < 0 THEN 0 - n ELSE n

Sq(n) == n * n

\* floor(sqrt(n)), by bisection: lo * lo <= n < hi * hi.
RECURSIVE IsqrtBetween(_, _, _)
IsqrtBetween(lo, hi, n) ==
    IF hi - lo <= 1
    THEN lo
    ELSE CHOOSE r \in
           {IF mid * mid <= n
            THEN IsqrtBetween(mid, hi, n)
            ELSE IsqrtBetween(lo, mid, n) : mid \in {(lo + hi) \div 2}} : TRUE

Isqrt(n) == CHOOSE r \in {IsqrtBetween(0, 46341, x) : x \in {n}} : TRUE

\* collinear
Collinear(a, b, c) ==
    a.x * (b.y - c.y) + b.x * (c.y - a.y) + c.x * (a.y - b.y) = 0

\* Circle::circumcircle. With b and c taken relative to a, the code divides
\* two numerators by d = 2 (b.x c.y - b.y c.x): the circle is kept as
\* [a, nx, ny, d], its center a + (nx, ny) / d and its radius
\* sqrt(nx^2 + ny^2) / |d|. d = 0 (collinear points) stands for the
\* non-finite circle the divisions produce.
Circumcircle(a, b, c) ==
    LET bx == b.x - a.x
        by == b.y - a.y
        cx == c.x - a.x
        cy == c.y - a.y
    IN  [a  |-> a,
         nx |-> cy * (Sq(bx) + Sq(by)) - by * (Sq(cx) + Sq(cy)),
         ny |-> bx * (Sq(cx) + Sq(cy)) - cx * (Sq(bx) + Sq(by)),
         d  |-> 2 * (bx * cy - by * cx)]

\* d * (center.dist(p)^2 - radius^2), which is d^2 |p - a|^2 - 2 d (p - a).(nx, ny),
\* divided by d: its sign against the sign of d tells inside from outside.
CirclePower(circle, p) ==
    LET px == p.x - circle.a.x
        py == p.y - circle.a.y
    IN  circle.d * (Sq(px) + Sq(py)) - 2 * (px * circle.nx + py * circle.ny)

\* Circle::contains without its tolerance: center.dist(p) - radius <= 0.
CircleContainsExactly(circle, p) ==
    /\ circle.d # 0
    /\ \/ circle.d > 0 /\ CirclePower(circle, p) <= 0
       \/ circle.d < 0 /\ CirclePower(circle, p) >= 0

\* A Circle::contains that holds of no point.
CircleContainsNothing(circle, p) == FALSE

\* Circle::contains: center.dist(p) - radius <= 1e-4. With
\* U = |d (p - a) - (nx, ny)|^2 and S = nx^2 + ny^2 the test is
\* sqrt(U) - sqrt(S) <= |d| / 10^4; outside the circle U - S = d * power > 0,
\* and the test becomes 10^4 |power| <= sqrt(U) + sqrt(S). The two roots are
\* taken as their integer parts. A non-finite circle contains nothing
\* (every comparison with NaN is false).
CircleContains(circle, p) ==
    /\ circle.d # 0
    /\ \E n \in {CirclePower(circle, p)} :
          \/ circle.d > 0 /\ n <= 0
          \/ circle.d < 0 /\ n >= 0
          \/ LET u == Sq(circle.d * (p.x - circle.a.x) - circle.nx)
                      + Sq(circle.d * (p.y - circle.a.y) - circle.ny)
                 s == Sq(circle.nx) + Sq(circle.ny)
             IN  Abs(n) <= (Isqrt(u) + Isqrt(s)) \div 10000

\* BarycentricCoords::triangle with the weights taken without their signs.
BaryTriangleUnsigned(a, b, c, p) ==
    LET d  == (b.y - c.y) * (a.x - c.x) + (c.x - b.x) * (a.y - c.y)
        n0 == (b.y - c.y) * (p.x - c.x) + (c.x - b.x) * (p.y - c.y)
        n1 == (c.y - a.y) * (p.x - c.x) + (a.x - c.x) * (p.y - c.y)
    IN  Some([n0 |-> Abs(n0), n1 |-> Abs(n1), n2 |-> Abs(d - n0 - n1),
              d |-> Abs(d)])

\* BarycentricCoords::triangle. The weights are kept as numerators over the
\* common denominator d: w0 = n0 / d, w1 = n1 / d, w2 = 1 - w0 - w1. With
\* d = 0 the weights are not finite, w0 + w1 + w2 > 1.0 is false and the code
\* returns Some of them.
BaryTriangle(a, b, c, p) ==
    LET d  == (b.y - c.y) * (a.x - c.x) + (c.x - b.x) * (a.y - c.y)
        n0 == (b.y - c.y) * (p.x - c.x) + (c.x - b.x) * (p.y - c.y)
        n1 == (c.y - a.y) * (p.x - c.x) + (a.x - c.x) * (p.y - c.y)
        n2 == d - n0 - n1
        sumAboveOne == \/ d > 0 /\ n0 + n1 + n2 > d
                       \/ d < 0 /\ n0 + n1 + n2 < d
    IN  IF sumAboveOne
        THEN None
        ELSE Some([n0 |-> n0, n1 |-> n1, n2 |-> n2, d |-> d])

(***************************************************************************)
(* f64 arithmetic of the barycentric code, at reduced precision            *)
(*                                                                         *)
(* BarycentricCoords::triangle and to_point are also modelled with the     *)
(* rounding of their f64 operations: a float is n / d with d a power of    *)
(* two and a significand of MantBits bits (f64 has 53), every operation    *)
(* rounds its exact result to the nearest float, ties to even. d = 0       *)
(* stands for the non-finite values: n = 1 or -1 an infinity, n = 0 NaN.   *)
(* The exponent range is not bounded and the sign of a zero is not kept.   *)
(***************************************************************************)
MantBits == 11

NaN == [n |-> 0, d |-> 0]

Inf(s) == [n |-> s, d |-> 0]

IsNaN(x) == x.d = 0 /\ x.n = 0

IsInf(x) == x.d = 0 /\ x.n # 0

Sign(n) == IF n > 0 THEN 1 ELSE IF n < 0 THEN -1 ELSE 0

\* An integer as a float (exact below 2^MantBits).
FromInt(i) == [n |-> i, d |-> 1]

RECURSIVE FCanon(_, _)
\* n / d in lowest terms, d a power of two.
FCanon(n, d) ==
    IF d > 1 /\ n % 2 = 0 THEN FCanon(n \div 2, d \div 2)
    ELSE [n |-> n, d |-> d]

RECURSIVE Exponent(_, _)
\* The e with 2^(MantBits-1) <= a / (d 2^e) < 2^MantBits, for a, d > 0.
Exponent(a, d) ==
    IF a \div d >= 2^MantBits THEN Exponent(a, 2 * d) + 1
    ELSE IF a \div d < 2^(MantBits - 1) THEN Exponent(2 * a, d) - 1
    ELSE 0

\* Round to nearest, ties to even, of the exact n / d (d > 0).
Round(n, d) ==
    IF n = 0 THEN FromInt(0)
    ELSE CHOOSE r \in
           {LET num == IF e < 0 THEN Abs(n) * 2^(-e) ELSE Abs(n)
                den == IF e > 0 THEN d * 2^e ELSE d
                q   == num \div den
                rem == num % den
                m   == IF 2 * rem > den \/ (2 * rem = den /\ q % 2 = 1)
                       THEN q + 1 ELSE q
            IN  IF e >= 0 THEN FromInt(Sign(n) * m * 2^e)
                ELSE FCanon(Sign(n) * m, 2^(-e)) :
            e \in {Exponent(Abs(n), d)}} : TRUE

\* f64 +
FAdd(x, y) ==
    IF IsNaN(x) \/ IsNaN(y) THEN NaN
    ELSE IF IsInf(x) /\ IsInf(y) THEN (IF x.n = y.n THEN x ELSE NaN)
    ELSE IF IsInf(x) THEN x
    ELSE IF IsInf(y) THEN y
    ELSE Round(x.n * (Max(x.d, y.d) \div x.d) + y.n * (Max(x.d, y.d) \div y.d),
               Max(x.d, y.d))

\* f64 -
FSub(x, y) == FAdd(x, [n |-> -y.n, d |-> y.d])

\* f64 *
FMul(x, y) ==
    IF IsNaN(x) \/ IsNaN(y) THEN NaN
    ELSE IF IsInf(x) \/ IsInf(y)
    THEN (IF x.n = 0 \/ y.n = 0 THEN NaN ELSE Inf(Sign(x.n) * Sign(y.n)))
    ELSE Round(x.n * y.n, x.d * y.d)

\* f64 /
FDiv(x, y) ==
    IF IsNaN(x) \/ IsNaN(y) THEN NaN
    ELSE IF IsInf(x)
    THEN (IF IsInf(y) THEN NaN
          ELSE Inf(Sign(x.n) * (IF y.n < 0 THEN -1 ELSE 1)))
    ELSE IF IsInf(y) THEN FromInt(0)
    ELSE IF y.n = 0 THEN (IF x.n = 0 THEN NaN ELSE Inf(Sign(x.n)))
    ELSE Round(Sign(y.n) * x.n * y.d, x.d * Abs(y.n))

\* f64 >, false when either side is NaN
FGt(x, y) ==
    IF IsNaN(x) \/ IsNaN(y) THEN FALSE
    ELSE IF IsInf(x) THEN x.n > 0 /\ ~(IsInf(y) /\ y.n > 0)
    ELSE IF IsInf(y) THEN y.n < 0
    ELSE x.n * y.d > y.n * x.d

\* A point with integer coordinates as a Vec2 of floats.
Vec2F(v) == Vec2(FromInt(v.x), FromInt(v.y))

\* Mul<f64> for Vec2
Vec2Mul(v, k) == Vec2(FMul(v.x, k), FMul(v.y, k))

\* Add for Vec2
Vec2Add(u, v) == Vec2(FAdd(u.x, v.x), FAdd(u.y, v.y))

\* The weights of a vertex of the triangle.
Weights(w0, w1, w2) ==
    [w0 |-> FromInt(w0), w1 |-> FromInt(w1), w2 |-> FromInt(w2)]

\* BarycentricCoords::triangle, operation by operation.
BarycentricCoordsTriangle(a, b, c, p) ==
    CHOOSE r \in
      {IF FGt(FAdd(FAdd(w.w0, w.w1), w.w2), FromInt(1)) THEN None ELSE Some(w) :
       w \in
        {[w0 |-> w01[1], w1 |-> w01[2],
          w2 |-> FSub(FSub(FromInt(1), w01[1]), w01[2])] :
         w01 \in
          {<<FDiv(FAdd(FMul(FSub(b.y, c.y), FSub(p.x, c.x)),
                       FMul(FSub(c.x, b.x), FSub(p.y, c.y))), d),
             FDiv(FAdd(FMul(FSub(c.y, a.y), FSub(p.x, c.x)),
                       FMul(FSub(a.x, c.x), FSub(p.y, c.y))), d)>> :
           d \in {FAdd(FMul(FSub(b.y, c.y), FSub(a.x, c.x)),
                       FMul(FSub(c.x, b.x), FSub(a.y, c.y)))}}}} : TRUE

\* BarycentricCoords::to_point with the first vertex only.
ToPointFirstVertex(w, triangle) == Vec2Mul(triangle[1], w.w0)

\* BarycentricCoords::to_point
BarycentricCoordsToPoint(w, triangle) ==
    Vec2Add(Vec2Add(Vec2Mul(triangle[1], w.w0), Vec2Mul(triangle[2], w.w1)),
            Vec2Mul(triangle[3], w.w2))

(***************************************************************************)
(* src/bvh.rs                                                              *)
(***************************************************************************)
\* Entries a leaf holds before it splits. The code's LEAF_SIZE is 128; the
\* model scales it down so that splits, and splits of splits, happen.
LEAF_SIZE == 2

MIN_BBOX_AREA == 1

Leaf(elems, bbox) == [kind |-> "Leaf", elems |-> elems, bbox |-> bbox]

Branch(bbox, children) == [kind |-> "Branch", bbox |-> bbox, children |-> children]

Entry(e, e_bbox) == [e |-> e, bbox |-> e_bbox]

\* Bvh::new: the root is an empty leaf.
BvhNew(bbox) == Leaf(<<>>, bbox)

\* BvhNode::intersects
NodeIntersects(n, e_bbox) == IsSome(BboxIntersection(n.bbox, e_bbox))

RECURSIVE NodeInsert(_, _, _)
RECURSIVE DistributeFrom(_, _, _)

\* The loops of BvhNode::split seen from one child: the drained entries
\* k.. of elems, in order, inserted into the child when it intersects them.
DistributeFrom(child, elems, k) ==
    IF k > Len(elems)
    THEN child
    ELSE DistributeFrom(
             IF NodeIntersects(child, elems[k].bbox)
             THEN NodeInsert(child, elems[k].e, elems[k].bbox)
             ELSE child,
             elems, k + 1)

\* BvhNode::split
NodeSplit(elems, bbox) ==
    LET pivot == BboxCenter(bbox)
        quads == BboxSplit(bbox, pivot)
    IN  Branch(bbox,
               [i \in 1..4 |-> DistributeFrom(Leaf(<<>>, quads[i]), elems, 1)])

\* BvhNode::insert that splits a leaf one entry late.
NodeInsertSplitsLate(n, e, e_bbox) ==
    IF n.kind = "Leaf"
    THEN LET elems == Append(n.elems, Entry(e, e_bbox))
         IN  IF Len(elems) > LEAF_SIZE + 1 /\ BboxArea(n.bbox) > MIN_BBOX_AREA
             THEN NodeSplit(elems, n.bbox)
             ELSE Leaf(elems, n.bbox)
    ELSE Branch(n.bbox,
                [i \in 1..4 |->
                    IF NodeIntersects(n.children[i], e_bbox)
                    THEN NodeInsert(n.children[i], e, e_bbox)
                    ELSE n.children[i]])

\* BvhNode::insert that stops at the first child the box intersects.
NodeInsertFirstChild(n, e, e_bbox) ==
    IF n.kind = "Leaf"
    THEN LET elems == Append(n.elems, Entry(e, e_bbox))
         IN  IF Len(elems) > LEAF_SIZE /\ BboxArea(n.bbox) > MIN_BBOX_AREA
             THEN NodeSplit(elems, n.bbox)
             ELSE Leaf(elems, n.bbox)
    ELSE LET hit == {i \in 1..4 : NodeIntersects(n.children[i], e_bbox)}
         IN  Branch(n.bbox,
                    [i \in 1..4 |->
                        IF i \in hit /\ \A j \in hit : i <= j
                        THEN NodeInsert(n.children[i], e, e_bbox)
                        ELSE n.children[i]])

\* BvhNode::insert
NodeInsert(n, e, e_bbox) ==
    IF n.kind = "Leaf"
    THEN LET elems == Append(n.elems, Entry(e, e_bbox))
         IN  IF Len(elems) > LEAF_SIZE /\ BboxArea(n.bbox) > MIN_BBOX_AREA
             THEN NodeSplit(elems, n.bbox)
             ELSE Leaf(elems, n.bbox)
    ELSE Branch(n.bbox,
                [i \in 1..4 |->
                    IF NodeIntersects(n.children[i], e_bbox)
                    THEN NodeInsert(n.children[i], e, e_bbox)
                    ELSE n.children[i]])

\* BvhNode::remove that stops at the first child the box intersects.
RECURSIVE NodeRemoveFirstChild(_, _, _)
NodeRemoveFirstChild(n, e, bbox) ==
    IF n.kind = "Leaf"
    THEN Leaf(SelectSeq(n.elems, LAMBDA en : en.e # e), n.bbox)
    ELSE LET hit == {i \in 1..4 : NodeIntersects(n.children[i], bbox)}
         IN  Branch(n.bbox,
                    [i \in 1..4 |->
                        IF i \in hit /\ \A j \in hit : i <= j
                        THEN NodeRemoveFirstChild(n.children[i], e, bbox)
                        ELSE n.children[i]])

\* BvhNode::remove
RECURSIVE NodeRemove(_, _, _)
NodeRemove(n, e, bbox) ==
    IF n.kind = "Leaf"
    THEN Leaf(SelectSeq(n.elems, LAMBDA en : en.e # e), n.bbox)
    ELSE Branch(n.bbox,
                [i \in 1..4 |->
                    IF NodeIntersects(n.children[i], bbox)
                    THEN NodeRemove(n.children[i], e, bbox)
                    ELSE n.children[i]])

\* The loop of BvhNode::enclosing with a test of the leaf's own bbox: a leaf
\* hands over its entries only if its bbox contains the query point.
RECURSIVE VisitedContainingLeaves(_, _)
VisitedContainingLeaves(nodes, query_point) ==
    IF nodes = <<>>
    THEN <<>>
    ELSE LET n    == nodes[Len(nodes)]
             rest == SubSeq(nodes, 1, Len(nodes) - 1)
         IN  IF n.kind = "Leaf"
             THEN (IF BboxContains(n.bbox, query_point) THEN n.elems ELSE <<>>)
                  \o VisitedContainingLeaves(rest, query_point)
             ELSE IF BboxContains(n.bbox, query_point)
             THEN VisitedContainingLeaves(rest \o n.children, query_point)
             ELSE VisitedContainingLeaves(rest, query_point)

\* The loop of BvhNode::enclosing without its filter: the entries the
\* iterator reaches, in order. nodes is the stack of nodes still to visit
\* (Vec::pop takes the last); a leaf hands over all its entries, a branch
\* pushes its four children when its bbox contains the query point.
RECURSIVE Visited(_, _)
Visited(nodes, query_point) ==
    IF nodes = <<>>
    THEN <<>>
    ELSE LET n    == nodes[Len(nodes)]
             rest == SubSeq(nodes, 1, Len(nodes) - 1)
         IN  IF n.kind = "Leaf"
             THEN n.elems \o Visited(rest, query_point)
             ELSE IF BboxContains(n.bbox, query_point)
             THEN Visited(rest \o n.children, query_point)
             ELSE Visited(rest, query_point)

\* The loop of BvhNode::enclosing: the leaves whose entries become
\* cur_elems, on each of which `contains` is evaluated, in order.
RECURSIVE ScannedLeaves(_, _)
ScannedLeaves(nodes, query_point) ==
    IF nodes = <<>>
    THEN <<>>
    ELSE LET n    == nodes[Len(nodes)]
             rest == SubSeq(nodes, 1, Len(nodes) - 1)
         IN  IF n.kind = "Leaf"
             THEN <<n>> \o ScannedLeaves(rest, query_point)
             ELSE IF BboxContains(n.bbox, query_point)
             THEN ScannedLeaves(rest \o n.children, query_point)
             ELSE ScannedLeaves(rest, query_point)

\* BvhNode::enclosing: the elements yielded, in order, duplicates included.
\* The closure `contains` is the function it computes.
NodeEnclosing(n, query_point, contains) ==
    LET hits == SelectSeq(Visited(<<n>>, query_point),
                          LAMBDA en : contains[en.e, query_point])
    IN  [k \in 1..Len(hits) |-> hits[k].e]

\* BvhNode::depth
RECURSIVE NodeDepth(_)
NodeDepth(n) ==
    IF n.kind = "Leaf"
    THEN 1
    ELSE 1 + Max(Max(NodeDepth(n.children[1]), NodeDepth(n.children[2])),
                 Max(NodeDepth(n.children[3]), NodeDepth(n.children[4])))

\* BvhNode::len
RECURSIVE NodeLen(_)
NodeLen(n) ==
    IF n.kind = "Leaf"
    THEN Len(n.elems)
    ELSE NodeLen(n.children[1]) + NodeLen(n.children[2])
         + NodeLen(n.children[3]) + NodeLen(n.children[4])

\* All the leaves of a tree.
RECURSIVE Leaves(_)
Leaves(n) ==
    IF n.kind = "Leaf"
    THEN {n}
    ELSE UNION {Leaves(n.children[i]) : i \in 1..4}

Range(s) == {s[k] : k \in DOMAIN s}

\* All the nodes of a tree.
RECURSIVE Nodes(_)
Nodes(n) ==
    IF n.kind = "Leaf"
    THEN {n}
    ELSE {n} \cup UNION {Nodes(n.children[i]) : i \in 1..4}

(***************************************************************************)
(* The bvh program, after the tests of src/bvh.rs: elements are points,    *)
(* each inserted with the box around it (Bbox::new(p) enlarged), queried   *)
(* with `contains` testing that box.                                       *)
(***************************************************************************)
\* Bvh::insert and Bvh::remove calls of one run.
MaxBvhOps == 4

\* The amount each element's point is enlarged by (5.0 and 10.0 in the tests).
Enlarge == 1

\* Root box of the tree under test.
RootBbox == [min |-> Vec2(0, 0), max |-> Vec2(4, 4)]

\* The elements: points in, at the corners of and outside the root box.
BvhElems == {Vec2(0, 0), Vec2(1, 1), Vec2(2, 2), Vec2(4, 4), Vec2(6, 6)}

\* The box an element is inserted with.
ElemBbox(e) == BboxEnlarge(BboxNew(e), Enlarge)

\* The tests' closure: |e, p| { b = Bbox::new(e); b.enlarge(..); b.contains(p) }
ElemContains(e, p) == BboxContains(ElemBbox(e), p)

QueryPoints == {Vec2(0, 0), Vec2(1, 1), Vec2(2, 2), Vec2(4, 1),
                Vec2(-1, 0), Vec2(6, 6)}

\* The closure handed to Bvh::enclosing.
ContainsClosure == [e \in BvhElems, p \in QueryPoints |-> ElemContains(e, p)]

otherThanBvh == <<arenaVars, meshVars, flipVars, geoVars>>

BvhInit ==
    /\ bvh = BvhNew(RootBbox)
    /\ stored = {}
    /\ bops = 0
    /\ bret = [op |-> "new", e |-> Vec2(0, 0), had |-> FALSE, out |-> <<>>]

\* Bvh::insert
BvhInsert(e) ==
    /\ bops < MaxBvhOps
    /\ bvh' = NodeInsert(bvh, e, ElemBbox(e))
    /\ stored' = stored \cup {e}
    /\ bops' = bops + 1
    /\ bret' = [op |-> "insert", e |-> e, had |-> e \in stored, out |-> <<>>]
    /\ UNCHANGED otherThanBvh

\* Bvh::remove, with the box the element was inserted with
BvhRemove(e) ==
    /\ bops < MaxBvhOps
    /\ bvh' = NodeRemove(bvh, e, ElemBbox(e))
    /\ stored' = stored \ {e}
    /\ bops' = bops + 1
    /\ bret' = [op |-> "remove", e |-> e, had |-> e \in stored, out |-> <<>>]
    /\ UNCHANGED otherThanBvh

\* Bvh::enclosing, collected
BvhQuery(p) ==
    /\ bret' = [op |-> "enclosing", e |-> p, had |-> FALSE,
                out |-> NodeEnclosing(bvh, p, ContainsClosure)]
    /\ UNCHANGED <<bvh, stored, bops, otherThanBvh>>

BvhNext ==
    \/ \E e \in BvhElems : BvhInsert(e)
    \/ \E e \in BvhElems : BvhRemove(e)
    \/ \E p \in QueryPoints : BvhQuery(p)

(***************************************************************************)
(* src/mesh.rs: DelaunayMesh. The file is not among the sources; the mesh  *)
(* is modelled from its specification (half-edge topology over three       *)
(* arenas, a Bvh over the faces, insertion by point location, face split   *)
(* and flip cascade), on top of the arena, bvh and geometry modelled above.*)
(***************************************************************************)
Vertex(pos, edge) == [pos |-> pos, edge |-> edge]

HalfEdge(origin, twin, next, face) ==
    [origin |-> origin, twin |-> twin, next |-> next, face |-> face]

Face(edge) == [edge |-> edge]

\* Arena indexing, arena[id].
At(a, id) == ArenaGet(a, id).val

\* The pushes of vals, in order: [arena, ids].
RECURSIVE PushAll(_, _)
PushAll(a, vals) ==
    IF vals = <<>>
    THEN [arena |-> a, ids |-> <<>>]
    ELSE CHOOSE x \in UNION {
             {[arena |-> rest.arena, ids |-> <<r.id>> \o rest.ids] :
                 rest \in {PushAll(r.arena, Tail(vals))}} :
             r \in {ArenaPush(a, Head(vals))}} : TRUE

\* Index assignments arena[ids[k]] = vals[k].
RECURSIVE SetAll(_, _, _)
SetAll(a, ids, vals) ==
    IF ids = <<>>
    THEN a
    ELSE CHOOSE x \in
           {SetAll(a1, ids1, vals1) :
               a1 \in {ArenaSet(a, Head(ids), Head(vals))},
               ids1 \in {Tail(ids)}, vals1 \in {Tail(vals)}} : TRUE

\* A super-vertex test that misses the third super-vertex.
IsSuperFirstTwo(v) == v < 2

\* A super-vertex test that holds of no vertex.
IsSuperNever(v) == FALSE

\* The three super-vertices are the first three vertices pushed.
IsSuper(v) == v < 3

\* The super-triangle: three points around the center of the world box, at
\* 90, 210 and 330 degrees, far enough for the triangle to hold the box
\* strictly inside. The radius is four times the longer side and the
\* directions are (0, 1), (-7/8, -1/2) and (7/8, -1/2).
SuperTriangle(bbox) ==
    LET c == BboxCenter(bbox)
        r == 4 * Max(BboxDimensions(bbox).x, BboxDimensions(bbox).y)
    IN  << Vec2(c.x, c.y + r),
           Vec2(c.x - (7 * r) \div 8, c.y - r \div 2),
           Vec2(c.x + (7 * r) \div 8, c.y - r \div 2) >>

\* The vertex handles of a face, from its edge around the next cycle.
FaceVertices(m, f) ==
    CHOOSE vs \in UNION { UNION {
        {<< At(m.hedges, e0).origin, At(m.hedges, e1).origin,
            At(m.hedges, e2).origin >> : e2 \in {At(m.hedges, e1).next}} :
        e1 \in {At(m.hedges, e0).next}} :
        e0 \in {At(m.faces, f).edge}} : TRUE

\* DelaunayMesh::triangle_vertices
TriangleVertices(m, f) ==
    CHOOSE t \in {<< At(m.vertices, vs[1]).pos, At(m.vertices, vs[2]).pos,
                     At(m.vertices, vs[3]).pos >> :
                  vs \in {FaceVertices(m, f)}} : TRUE

\* The bounding box a face is indexed with.
FaceBbox(m, f) ==
    CHOOSE b \in {BboxExpand(BboxExpand(BboxNew(t[1]), t[2]), t[3]) :
                  t \in {TriangleVertices(m, f)}} : TRUE

\* DelaunayMesh::new: the super-triangle, its face indexed in the bvh. Three
\* inner half-edges 0, 1, 2 carry the face; their twins 3, 4, 5 run the
\* other way around the outside and carry none.
MeshNew(bbox) ==
    LET sv == SuperTriangle(bbox)
        vs == PushAll(ArenaNew, << Vertex(sv[1], Some(0)), Vertex(sv[2], Some(1)),
                                   Vertex(sv[3], Some(2)) >>)
        hs == PushAll(ArenaNew,
                      << HalfEdge(0, 3, 1, Some(0)), HalfEdge(1, 4, 2, Some(0)),
                         HalfEdge(2, 5, 0, Some(0)),
                         HalfEdge(1, 0, 5, None), HalfEdge(2, 1, 3, None),
                         HalfEdge(0, 2, 4, None) >>)
        fs == PushAll(ArenaNew, << Face(0) >>)
        m0 == [vertices |-> vs.arena, hedges |-> hs.arena, faces |-> fs.arena,
               bvh |-> BvhNew(bbox), bbox |-> bbox]
    IN  [m0 EXCEPT !.bvh = NodeInsert(@, fs.ids[1], FaceBbox(m0, fs.ids[1]))]

\* DelaunayMesh::vertices: the positions of the vertices, super-vertices left out.
MeshVertices(m) ==
    LET en   == ArenaEnumerate(m.vertices)
        real == SelectSeq(en, LAMBDA x : ~IsSuper(x.id))
    IN  [k \in 1..Len(real) |-> real[k].val.pos]

\* DelaunayMesh::triangles: the faces with their vertex handles, the faces
\* at a super-vertex left out.
MeshTriangles(m) ==
    LET en   == ArenaEnumerate(m.faces)
        real == SelectSeq(en, LAMBDA x :
                    \A k \in 1..3 : ~IsSuper(FaceVertices(m, x.id)[k]))
    IN  [k \in 1..Len(real) |->
            [face |-> real[k].id, vertices |-> FaceVertices(m, real[k].id)]]

\* A vertex lookup that finds nothing.
VertexAtNothing(m, p) == None

\* The vertex at p, if there is one: positions closer than 1e-4 coincide,
\* which for integer points is equality.
VertexAt(m, p) ==
    LET en   == ArenaEnumerate(m.vertices)
        same == SelectSeq(en, LAMBDA x : x.val.pos = p)
    IN  IF same = <<>> THEN None ELSE Some(same[1].id)

\* A weight n / d >= -1e-4; false of a weight that is not finite.
WeightInside(n, d) ==
    \/ d > 0 /\ 10000 * n >= 0 - d
    \/ d < 0 /\ 10000 * n <= 0 - d

\* Point in face: the three barycentric weights are at least -1e-4.
FaceContains(m, f, p) ==
    LET t == TriangleVertices(m, f)
        w == BaryTriangle(t[1], t[2], t[3], p)
    IN  /\ IsSome(w)
        /\ WeightInside(w.val.n0, w.val.d)
        /\ WeightInside(w.val.n1, w.val.d)
        /\ WeightInside(w.val.n2, w.val.d)

\* Point location: the bvh yields the faces whose box contains p, and the
\* first of them that contains p is taken.
Locate(m, p) ==
    LET cand == NodeEnclosing(m.bvh, p,
                    [f \in LiveIds(m.faces), q \in {p} |->
                        BboxContains(FaceBbox(m, f), q)])
        hits == SelectSeq(cand, LAMBDA f : FaceContains(m, f, p))
    IN  IF hits = <<>> THEN None ELSE Some(hits[1])

\* One bvh operation of the mesh, as logged: op is "remove" or "insert".
BvhOp(op, en) == [op |-> op, e |-> en.e, bbox |-> en.bbox]

\* The bvh operations ops applied in order.
RECURSIVE ApplyBvhOps(_, _)
ApplyBvhOps(n, ops) ==
    IF ops = <<>>
    THEN n
    ELSE CHOOSE x \in
           {ApplyBvhOps(n1, ops1) :
               n1 \in {IF Head(ops).op = "remove"
                       THEN NodeRemove(n, Head(ops).e, Head(ops).bbox)
                       ELSE NodeInsert(n, Head(ops).e, Head(ops).bbox)},
               ops1 \in {Tail(ops)}} : TRUE

\* The bvh update of a split or flip with the new faces indexed first.
ReindexInsertFirst(n, destroyed, created) ==
    LET ops == [k \in 1..Len(created) |-> BvhOp("insert", created[k])]
               \o [k \in 1..Len(destroyed) |-> BvhOp("remove", destroyed[k])]
    IN  [bvh |-> ApplyBvhOps(n, ops), log |-> ops]

\* The bvh update of a split or flip: the destroyed faces are removed, each
\* with the box it was indexed with, and then the created faces are
\* inserted. [bvh, log].
Reindex(n, destroyed, created) ==
    LET ops == [k \in 1..Len(destroyed) |-> BvhOp("remove", destroyed[k])]
               \o [k \in 1..Len(created) |-> BvhOp("insert", created[k])]
    IN  [bvh |-> ApplyBvhOps(n, ops), log |-> ops]

\* The split of face f = (a, b, c) at p: f leaves the bvh and the arena, the
\* vertex v is pushed, the faces (a, b, v), (b, c, v), (c, a, v) are
\* pushed and indexed. The half-edges ab, bc, ca stay, with their twins; six
\* half-edges b>v, v>a, c>v, v>b, a>v, v>c are new. [mesh, v, work, log].
SplitFace(m, f, p) ==
    LET vs   == FaceVertices(m, f)
        ab   == At(m.faces, f).edge
        bc   == At(m.hedges, ab).next
        ca   == At(m.hedges, bc).next
        fs1  == ArenaRemove(m.faces, f).arena
        rv   == ArenaPush(m.vertices, Vertex(p, None))
        v    == rv.id
        rh   == PushAll(m.hedges, [k \in 1..6 |-> HalfEdge(v, 0, 0, None)])
        h    == rh.ids
        rf   == PushAll(fs1, << Face(ab), Face(bc), Face(ca) >>)
        fa   == rf.ids[1]
        fb   == rf.ids[2]
        fc   == rf.ids[3]
        hs   == SetAll(rh.arena,
                    << ab, bc, ca, h[1], h[2], h[3], h[4], h[5], h[6] >>,
                    << [At(m.hedges, ab) EXCEPT !.next = h[1], !.face = Some(fa)],
                       [At(m.hedges, bc) EXCEPT !.next = h[3], !.face = Some(fb)],
                       [At(m.hedges, ca) EXCEPT !.next = h[5], !.face = Some(fc)],
                       HalfEdge(vs[2], h[4], h[2], Some(fa)),
                       HalfEdge(v,     h[5], ab,   Some(fa)),
                       HalfEdge(vs[3], h[6], h[4], Some(fb)),
                       HalfEdge(v,     h[1], bc,   Some(fb)),
                       HalfEdge(vs[1], h[2], h[6], Some(fc)),
                       HalfEdge(v,     h[3], ca,   Some(fc)) >>)
    IN  CHOOSE r \in UNION {
          {[mesh |-> [m1 EXCEPT !.bvh = ix.bvh], v |-> v,
            work |-> << ab, bc, ca >>, log |-> ix.log] :
           ix \in {Reindex(m.bvh, dead, born) :
                     dead \in {<< Entry(f, FaceBbox(m, f)) >>},
                     born \in {<< Entry(fa, FaceBbox(m1, fa)),
                                  Entry(fb, FaceBbox(m1, fb)),
                                  Entry(fc, FaceBbox(m1, fc)) >>}}} :
          m1 \in {[m EXCEPT !.vertices = ArenaSet(rv.arena, v,
                                                  Vertex(p, Some(h[2]))),
                            !.hedges = hs, !.faces = rf.arena]}} : TRUE

\* Does the edge e, opposite v in its face, violate the local Delaunay
\* condition: the face across e exists and its circumcircle contains v.
MustFlip(m, e, v) ==
    LET t == At(m.hedges, e).twin
    IN  /\ IsSome(At(m.hedges, t).face)
        /\ \E far \in {TriangleVertices(m, At(m.hedges, t).face.val)} :
              \E circle \in {Circumcircle(far[1], far[2], far[3])},
                 p \in {At(m.vertices, v).pos} : CircleContains(circle, p)

\* A flip that leaves the mesh as it is and the edge on the work list.
FlipEdgeNothing(m, e) == [mesh |-> m, pushed |-> << e >>, log |-> <<>>]

\* The flip of the edge e = x>y between f1 = (x, y, v) and f2 = (y, x, w):
\* both faces leave the bvh and the arena, the faces (w, y, v) and (x, w, v)
\* are pushed and indexed; e becomes v>w and its twin w>v. [mesh, pushed, log].
FlipEdge(m, e) ==
    CHOOSE r \in UNION { UNION { UNION {
      {[mesh |-> [m1 EXCEPT !.bvh = ix.bvh], pushed |-> << q.t2, q.t1 >>,
        log |-> ix.log] :
       ix \in {Reindex(m.bvh, dead, born) :
                 dead \in {<< Entry(q.f1, FaceBbox(m, q.f1)),
                              Entry(q.f2, FaceBbox(m, q.f2)) >>},
                 born \in {<< Entry(rf.ids[1], FaceBbox(m1, rf.ids[1])),
                              Entry(rf.ids[2], FaceBbox(m1, rf.ids[2])) >>}}} :
      m1 \in {[m EXCEPT
                !.vertices =
                    SetAll(m.vertices, << q.x, q.y >>,
                        << [At(m.vertices, q.x) EXCEPT !.edge = Some(q.t1)],
                           [At(m.vertices, q.y) EXCEPT !.edge = Some(q.e1)] >>),
                !.hedges =
                    SetAll(m.hedges, << e, q.t2, q.e1, q.t, q.e2, q.t1 >>,
                        << HalfEdge(q.v, q.t, q.t2, Some(rf.ids[1])),
                           [At(m.hedges, q.t2) EXCEPT !.next = q.e1,
                                                      !.face = Some(rf.ids[1])],
                           [At(m.hedges, q.e1) EXCEPT !.next = e,
                                                      !.face = Some(rf.ids[1])],
                           HalfEdge(q.w, e, q.e2, Some(rf.ids[2])),
                           [At(m.hedges, q.e2) EXCEPT !.next = q.t1,
                                                      !.face = Some(rf.ids[2])],
                           [At(m.hedges, q.t1) EXCEPT !.next = q.t,
                                                      !.face = Some(rf.ids[2])] >>),
                !.faces = rf.arena]}} :
      rf \in {PushAll(fs1, << Face(q.t2), Face(q.t1) >>) :
                fs1 \in {ArenaRemove(ArenaRemove(m.faces, q.f1).arena,
                                     q.f2).arena}}} :
      q \in {LET t  == At(m.hedges, e).twin
                 e1 == At(m.hedges, e).next
                 t1 == At(m.hedges, t).next
             IN  [t  |-> t, e1 |-> e1, e2 |-> At(m.hedges, e1).next,
                  t1 |-> t1, t2 |-> At(m.hedges, t1).next,
                  x  |-> At(m.hedges, e).origin,
                  y  |-> At(m.hedges, t).origin,
                  v  |-> At(m.hedges, At(m.hedges, e1).next).origin,
                  w  |-> At(m.hedges, At(m.hedges, t1).next).origin,
                  f1 |-> At(m.hedges, e).face.val,
                  f2 |-> At(m.hedges, t).face.val]}} : TRUE

\* One turn of the flip cascade: the last edge is popped off the work list;
\* if it must flip it is flipped and the two outer edges w>y and x>w of the
\* new faces are pushed. [mesh, work, flipped, log].
CascadeStep(m, work, v) ==
    LET e    == work[Len(work)]
        rest == SubSeq(work, 1, Len(work) - 1)
    IN  IF MustFlip(m, e, v)
        THEN CHOOSE s \in
               {[mesh |-> r.mesh, work |-> rest \o r.pushed, flipped |-> TRUE,
                 log |-> r.log] : r \in {FlipEdge(m, e)}} : TRUE
        ELSE [mesh |-> m, work |-> rest, flipped |-> FALSE, log |-> <<>>]

\* The flip cascade: turns are taken until the work list is empty.
\* [mesh, flips, log].
RECURSIVE Cascade(_, _, _, _, _)
Cascade(m, work, v, flips, log) ==
    IF work = <<>>
    THEN [mesh |-> m, flips |-> flips, log |-> log]
    ELSE CHOOSE c \in
           {Cascade(s.mesh, s.work, v,
                    IF s.flipped THEN flips + 1 ELSE flips, log \o s.log) :
            s \in {CascadeStep(m, work, v)}} : TRUE

Ok(x) == [tag |-> "Ok", val |-> x]

Err(x) == [tag |-> "Err", val |-> x]

\* DelaunayMesh::insert: [mesh, ret, flips, log]. The split s and the cascade c
\* that follows it are each bound once, as the one element of a set.
MeshInsert(m, p) ==
    IF IsSome(VertexAt(m, p))
    THEN [mesh |-> m, ret |-> Ok(VertexAt(m, p).val), flips |-> 0,
          log |-> <<>>]
    ELSE IF ~IsSome(Locate(m, p))
    THEN [mesh |-> m, ret |-> Err("OutOfBounds"), flips |-> 0, log |-> <<>>]
    ELSE CHOOSE r \in UNION {
             {[mesh |-> c.mesh, ret |-> Ok(s.v), flips |-> c.flips,
               log |-> c.log] :
                 c \in {Cascade(s.mesh, s.work, s.v, 0, s.log)}} :
             s \in {SplitFace(m, f.val, p) : f \in {Locate(m, p)}}} : TRUE

(***************************************************************************)
(* The mesh program: a mesh over the world box, and inserts of points of   *)
(* the box (callers keep their points inside it) or of a point outside the *)
(* super-triangle.                                                         *)
(***************************************************************************)
\* DelaunayMesh::insert calls of one run.
MaxInserts == 4

WorldBbox == [min |-> Vec2(0, 0), max |-> Vec2(2, 2)]

\* The corners of the box (four points on a circle), its center (on the
\* diagonals) and the midpoint of a side (collinear with two corners).
WorldPoints == {Vec2(0, 0), Vec2(2, 0), Vec2(2, 2), Vec2(0, 2),
                Vec2(1, 1), Vec2(1, 0)}

FarPoints == {Vec2(-5, 8)}

otherThanMesh == <<arenaVars, bvhVars, flipVars, geoVars>>

MeshInit ==
    /\ mesh = MeshNew(WorldBbox)
    /\ calls = 0
    /\ mret = [op |-> "new", p |-> Vec2(0, 0), dup |-> FALSE, ret |-> Ok(0),
               flips |-> 0, log |-> <<>>]

Insert(p) ==
    /\ calls < MaxInserts
    /\ LET r == MeshInsert(mesh, p)
       IN  /\ mesh' = r.mesh
           /\ mret' = [op |-> "insert", p |-> p,
                       dup |-> IsSome(VertexAt(mesh, p)), ret |-> r.ret,
                       flips |-> r.flips, log |-> r.log]
    /\ calls' = calls + 1
    /\ UNCHANGED otherThanMesh

MeshNext == \E p \in WorldPoints \cup FarPoints : Insert(p)

(***************************************************************************)
(* The same program with DelaunayMesh::insert taken turn by turn: the      *)
(* call up to the split of the located face, each turn of the flip         *)
(* cascade, and the return once the work list is empty.                    *)
(***************************************************************************)
otherThanFlip == <<arenaVars, bvhVars, geoVars>>

FlipInit == cascade = [pc |-> "idle", work |-> <<>>, v |-> 0, flipped |-> FALSE]

InsertBegin(p) ==
    /\ cascade.pc = "idle"
    /\ calls < MaxInserts
    /\ calls' = calls + 1
    /\ IF IsSome(VertexAt(mesh, p)) \/ ~IsSome(Locate(mesh, p))
       THEN /\ mret' = [op |-> "insert", p |-> p,
                        dup |-> IsSome(VertexAt(mesh, p)),
                        ret |-> MeshInsert(mesh, p).ret, flips |-> 0,
                        log |-> <<>>]
            /\ UNCHANGED <<mesh, cascade>>
       ELSE \E s \in {SplitFace(mesh, f.val, p) : f \in {Locate(mesh, p)}} :
               /\ mesh' = s.mesh
               /\ cascade' = [pc |-> "cascade", work |-> s.work, v |-> s.v,
                              flipped |-> FALSE]
               /\ mret' = [op |-> "insert", p |-> p, dup |-> FALSE,
                           ret |-> Ok(s.v), flips |-> 0, log |-> <<>>]
    /\ UNCHANGED otherThanFlip

InsertFlip ==
    /\ cascade.pc = "cascade"
    /\ cascade.work # <<>>
    /\ \E s \in {CascadeStep(mesh, cascade.work, cascade.v)} :
          /\ mesh' = s.mesh
          /\ cascade' = [cascade EXCEPT !.work = s.work,
                                        !.flipped = @ \/ s.flipped]
    /\ UNCHANGED <<calls, mret, otherThanFlip>>

InsertReturn ==
    /\ cascade.pc = "cascade"
    /\ cascade.work = <<>>
    /\ cascade' = [cascade EXCEPT !.pc = "idle"]
    /\ UNCHANGED <<mesh, calls, mret, otherThanFlip>>

FlipNext ==
    \/ \E p \in WorldPoints \cup FarPoints : InsertBegin(p)
    \/ InsertFlip
    \/ InsertReturn

(***************************************************************************)
(* The geometry program: one call of BarycentricCoords::triangle on any    *)
(* triangle and point of a small integer grid, then to_point on the        *)
(* weights it returned.                                                    *)
(***************************************************************************)
GridCoords == {0, 1, 2}

GridPoints == {Vec2(x, y) : x \in GridCoords, y \in GridCoords}

otherThanGeo == <<arenaVars, bvhVars, meshVars, flipVars>>

GeoInit ==
    /\ gin = [a |-> Vec2(0, 0), b |-> Vec2(0, 0), c |-> Vec2(0, 0),
              p |-> Vec2(0, 0)]
    /\ gout = [op |-> "none", w |-> None, pt |-> None]
    /\ sbox = [op |-> "none", a |-> Vec2(0, 0), b |-> Vec2(0, 0),
                bbox |-> BboxNew(Vec2(0, 0)), children |-> <<>>]

Triangle(a, b, c, p) ==
    /\ gout.op = "none"
    /\ gin' = [a |-> a, b |-> b, c |-> c, p |-> p]
    /\ gout' = [op |-> "triangle",
                w  |-> BarycentricCoordsTriangle(Vec2F(a), Vec2F(b), Vec2F(c),
                                                 Vec2F(p)),
                pt |-> None]
    /\ UNCHANGED <<sbox, otherThanGeo>>

ToPoint ==
    /\ gout.op = "triangle"
    /\ IsSome(gout.w)
    /\ gout' = [op |-> "to_point", w |-> gout.w,
                pt |-> Some(BarycentricCoordsToPoint(
                           gout.w.val,
                           <<Vec2F(gin.a), Vec2F(gin.b), Vec2F(gin.c)>>))]
    /\ UNCHANGED <<gin, sbox, otherThanGeo>>

GeoNext ==
    \/ \E a, b, c, p \in GridPoints : Triangle(a, b, c, p)
    \/ ToPoint

(***************************************************************************)
(* The split program, after tests::prop_bbox_split_center: the bbox of two *)
(* points, then its split around its center. Coordinates are in half       *)
(* units (the model's 2k is the integer k of rand_vec2), so that the       *)
(* center of every box is a point of the model.                            *)
(***************************************************************************)
SplitCoords == {0, 2, 4, 6}

SplitPoints == {Vec2(x, y) : x \in SplitCoords, y \in SplitCoords}

\* let mut bbox = Bbox::new(a); bbox.expand(b);
MakeBbox(a, b) ==
    /\ sbox.op = "none"
    /\ sbox' = [op |-> "bbox", a |-> a, b |-> b,
                 bbox |-> BboxExpand(BboxNew(a), b), children |-> <<>>]
    /\ UNCHANGED <<gin, gout, otherThanGeo>>

\* let children = bbox.split(bbox.center());
SplitAtCenter ==
    /\ sbox.op = "bbox"
    /\ sbox' = [sbox EXCEPT !.op = "split",
                               !.children = BboxSplit(sbox.bbox,
                                                      BboxCenter(sbox.bbox))]
    /\ UNCHANGED <<gin, gout, otherThanGeo>>

SplitNext ==
    \/ \E a, b \in SplitPoints : MakeBbox(a, b)
    \/ SplitAtCenter

(***************************************************************************)
(* Specifications                                                          *)
(***************************************************************************)
Init == ArenaInit /\ BvhInit /\ MeshInit /\ FlipInit /\ GeoInit

ArenaSpec == Init /\ [][ArenaNext]_vars

BvhSpec == Init /\ [][BvhNext]_vars

Spec == Init /\ [][MeshNext]_vars

GeoSpec == Init /\ [][GeoNext]_vars

SplitSpec == Init /\ [][SplitNext]_vars

\* insert runs to its return once called: each turn of the cascade and the
\* return are steps of one call, which nothing suspends.
FlipSpec ==
    /\ Init /\ [][FlipNext]_vars
    /\ WF_vars(InsertFlip)
    /\ WF_vars(InsertReturn)

(***************************************************************************)
(* Properties                                                              *)
(***************************************************************************)

\* C3: a handle returned by push resolves, through get, to the value pushed
\* or last written through it, in every state until it is removed, whatever
\* is pushed, removed or written through other handles in between.
HandleResolvesUntilRemoved ==
    \A h \in DOMAIN shadow : ArenaGet(arena, h) = Some(shadow[h])

\* A push has just reused a freed slot below a live handle that holds
\* another value.
HandleOutlivesSlotReuse ==
    /\ aret.op = "push"
    /\ apanic = "none"
    /\ \E h \in DOMAIN shadow :
          aret.id < h /\ shadow[h] # shadow[aret.id]

\* C8: get, get_mut and remove with a handle that is out of range or whose
\* slot is free return None, do not panic and leave the slots and the head
\* of the free list as they were.
InvalidHandleIsNoop ==
    [][(aret'.op \in {"get", "get_mut", "remove"} /\ ~aret'.valid)
          => (arena' = arena /\ aret'.ret = None /\ apanic' = "none")]_vars

\* remove has just been called again on the slot at the head of the free
\* list.
RemovedTwice ==
    /\ aret.op = "remove"
    /\ ~aret.valid
    /\ arena.first_free = Some(aret.id)

EnumeratedIds == [k \in 1..Len(ArenaEnumerate(arena)) |-> ArenaEnumerate(arena)[k].id]

\* C9 as stated: enumerate() yields the occupied slots in the order in which
\* their values were pushed.
IterationInPushOrder == EnumeratedIds = pushOrder

\* C9, amended: enumerate() and iter() yield exactly the occupied slots,
\* each once, in increasing slot index, and every pair (id, v) yielded
\* satisfies arena[id] = v.
IterationInSlotOrder ==
    LET en == ArenaEnumerate(arena)
    IN  /\ Range(EnumeratedIds) = DOMAIN shadow
        /\ \A j, k \in 1..Len(en) : j < k => en[j].id < en[k].id
        /\ \A k \in 1..Len(en) :
              /\ ArenaGet(arena, en[k].id) = Some(en[k].val)
              /\ shadow[en[k].id] = en[k].val
        /\ ArenaIter(arena) = [k \in 1..Len(en) |-> shadow[en[k].id]]

\* Two occupied slots are iterated against their push order, next to a
\* free slot.
IterationAfterReuse ==
    /\ Len(pushOrder) >= 2
    /\ EnumeratedIds # pushOrder
    /\ \E ix \in 0..(Len(arena.data) - 1) : Slot(arena, ix).kind = "Free"

\* The root box is the bounding box of the inserted points, as the property
\* test of src/bvh.rs builds it.
RootIsBboxOfStored ==
    /\ \A e \in stored : BboxContains(RootBbox, e)
    /\ \E e \in stored : e.x = RootBbox.min.x
    /\ \E e \in stored : e.y = RootBbox.min.y
    /\ \E e \in stored : e.x = RootBbox.max.x
    /\ \E e \in stored : e.y = RootBbox.max.y

\* C4 as stated, in the setting of the property test (the root box is the
\* bounding box of the inserted points, every entry box is its point
\* enlarged): for every query point, the set of elements enclosing yields
\* is the set a linear scan of the inserted elements finds with the same
\* contains predicate.
EnclosingSameAsBruteForce ==
    RootIsBboxOfStored
        => \A p \in QueryPoints :
              Range(NodeEnclosing(bvh, p, ContainsClosure))
                  = {e \in stored : ElemContains(e, p)}

\* Every leaf of n without its entries of element e.
RECURSIVE Without(_, _)
Without(n, e) ==
    IF n.kind = "Leaf"
    THEN Leaf(SelectSeq(n.elems, LAMBDA en : en.e # e), n.bbox)
    ELSE Branch(n.bbox, [i \in 1..4 |-> Without(n.children[i], e)])

\* C10: after remove(&e, b), b the box e was inserted with, no leaf holds an
\* entry of e, whatever splits happened since the insert, so enclosing
\* yields e for no query point; the entries of other elements stay in place.
RemoveDeletesEveryEntry ==
    [][bret'.op = "remove"
          => /\ bvh' = Without(bvh, bret'.e)
             /\ \A l \in Leaves(bvh') : \A en \in Range(l.elems) : en.e # bret'.e
             /\ \A p \in QueryPoints :
                   bret'.e \notin Range(NodeEnclosing(bvh', p, ContainsClosure))]_vars

\* An element stored in several leaves of a tree that split twice has just
\* been removed, and other elements remain.
RemovedAcrossSplits ==
    /\ bret.op = "remove"
    /\ bret.had
    /\ NodeDepth(bvh) >= 3
    /\ NodeLen(bvh) > Cardinality(stored)
    /\ stored # {}

\* Is p strictly inside the circumcircle of a, b, c: center.dist(p) < radius.
StrictlyInsideCircumcircle(a, b, c, p) ==
    LET circle == Circumcircle(a, b, c)
    IN  \/ circle.d > 0 /\ CirclePower(circle, p) < 0
        \/ circle.d < 0 /\ CirclePower(circle, p) > 0

HalfEdgeInvariants ==
    \A e \in LiveIds(mesh.hedges) :
        LET he == At(mesh.hedges, e)
            n1 == he.next
            n2 == At(mesh.hedges, n1).next
            n3 == At(mesh.hedges, n2).next
        IN  /\ IsSome(ArenaGet(mesh.hedges, he.twin))
            /\ At(mesh.hedges, he.twin).twin = e
            /\ he.twin # e
            /\ IsSome(he.face)
                  => /\ n3 = e
                     /\ At(mesh.hedges, n1).face = he.face
                     /\ At(mesh.hedges, n2).face = he.face

\* An insert has split a face and flipped an edge.
SplitAndFlipped ==
    /\ mret.op = "insert"
    /\ mret.flips >= 1
    /\ Cardinality(LiveIds(mesh.hedges)) >= 18

\* C5: every face triangles() yields has three pairwise distinct vertices,
\* none of them a super-vertex; vertices() yields no super-vertex; and
\* triangles() is empty while the mesh holds at most one inserted point.
TrianglesAreFinite ==
    /\ \A k \in 1..Len(MeshTriangles(mesh)) :
          LET t == MeshTriangles(mesh)[k].vertices
          IN  /\ t[1] # t[2] /\ t[2] # t[3] /\ t[1] # t[3]
              /\ \A j \in 1..3 :
                    At(mesh.vertices, t[j]).pos \notin Range(SuperTriangle(mesh.bbox))
    /\ \A k \in 1..Len(MeshVertices(mesh)) :
          MeshVertices(mesh)[k] \notin Range(SuperTriangle(mesh.bbox))
    /\ Len(ArenaEnumerate(mesh.vertices)) <= 4 => MeshTriangles(mesh) = <<>>

\* triangles() yields some faces and leaves others out.
SomeTrianglesFinite ==
    /\ Len(MeshTriangles(mesh)) >= 2
    /\ Len(MeshTriangles(mesh)) < Len(ArenaEnumerate(mesh.faces))
    /\ Len(MeshVertices(mesh)) = 4

\* C6: insert(p) on a mesh that has a vertex at p changes nothing (vertices,
\* half-edges, faces and bvh are as before) and returns that vertex.
DuplicateInsertIsNoop ==
    [][(calls' = calls + 1 /\ \E x \in LiveIds(mesh.vertices) :
                                   At(mesh.vertices, x).pos = mret'.p)
          => /\ mesh' = mesh
             /\ mret'.ret.tag = "Ok"
             /\ At(mesh.vertices, mret'.ret.val).pos = mret'.p]_vars

\* A point has been inserted a second time into a mesh with triangles.
InsertedTwice ==
    /\ mret.op = "insert"
    /\ mret.dup
    /\ Len(MeshTriangles(mesh)) >= 1

\* Twice the signed area of (a, b, c): positive when counter-clockwise.
Orient(a, b, c) == (b.x - a.x) * (c.y - a.y) - (b.y - a.y) * (c.x - a.x)

\* p lies strictly outside the super-triangle.
OutsideSuperTriangle(p) ==
    LET sv == SuperTriangle(WorldBbox)
    IN  \/ Orient(sv[1], sv[2], p) < 0
        \/ Orient(sv[2], sv[3], p) < 0
        \/ Orient(sv[3], sv[1], p) < 0

\* C7: insert(p) with p outside the super-triangle returns the OutOfBounds
\* error and leaves vertices, half-edges, faces and bvh as they were.
OutOfBoundsLeavesMesh ==
    [][(calls' = calls + 1 /\ OutsideSuperTriangle(mret'.p))
          => (mesh' = mesh /\ mret'.ret = Err("OutOfBounds"))]_vars

\* An insert outside the super-triangle has been refused, on a mesh that
\* holds points.
RefusedOutOfBounds ==
    /\ mret.op = "insert"
    /\ mret.ret = Err("OutOfBounds")
    /\ Len(MeshVertices(mesh)) >= 2

\* The entries of all the leaves of the mesh's bvh.
MeshBvhEntries == UNION {Range(l.elems) : l \in Leaves(mesh.bvh)}

\* C11: after new and after each insert, the elements stored in the bvh are
\* exactly the live faces of the face arena, those at super-vertices
\* included, each entry carries the bounding box of the face's three current
\* vertices, and no entry names a destroyed face.
BvhHoldsLiveFaces ==
    /\ {en.e : en \in MeshBvhEntries} = LiveIds(mesh.faces)
    /\ \A en \in MeshBvhEntries :
          /\ IsSome(ArenaGet(mesh.faces, en.e))
          /\ en.bbox = FaceBbox(mesh, en.e)

\* An insert with flips has returned, the bvh has split, a face slot has
\* been freed and taken again, and faces at super-vertices are indexed.
IndexedAfterFlipsAndSplit ==
    /\ mret.op = "insert"
    /\ mret.flips >= 1
    /\ mesh.bvh.kind = "Branch"
    /\ Cardinality(LiveIds(mesh.faces)) >= 5
    /\ \E en \in MeshBvhEntries :
          \E k \in 1..3 : IsSuper(FaceVertices(mesh, en.e)[k])

\* C12 as stated: the faces triangles() yields are the distinct elements of
\* the bvh's leaves.
TrianglesAreBvhElements ==
    {MeshTriangles(mesh)[k].face : k \in 1..Len(MeshTriangles(mesh))}
        = {en.e : en \in MeshBvhEntries}

\* C12, amended: the faces triangles() yields are the elements of the bvh's
\* leaves that have no corner of the super-triangle among their vertices;
\* the bvh holds, besides them, the live faces at the super-triangle, of
\* which there is always at least one.
TrianglesAreBvhElementsAwayFromSuper ==
    /\ {MeshTriangles(mesh)[k].face : k \in 1..Len(MeshTriangles(mesh))}
          = {en.e : en \in {x \in MeshBvhEntries :
                \A k \in 1..3 : TriangleVertices(mesh, x.e)[k]
                                    \notin Range(SuperTriangle(mesh.bbox))}}
    /\ \E en \in MeshBvhEntries :
          \E k \in 1..3 : TriangleVertices(mesh, en.e)[k]
                              \in Range(SuperTriangle(mesh.bbox))

\* triangles() yields faces, and the bvh holds more faces than it yields.
BvhHoldsMoreThanTriangles ==
    /\ Len(MeshTriangles(mesh)) >= 2
    /\ Cardinality({en.e : en \in MeshBvhEntries}) > Len(MeshTriangles(mesh))
    /\ mesh.bvh.kind = "Branch"

\* The point p lies outside the triangle a, b, c: one of its exact
\* barycentric weights is negative.
OutsideTriangle(a, b, c, p) ==
    LET w == BaryTriangle(a, b, c, p).val
    IN  w.d # 0 /\ \E n \in {w.n0, w.n1, w.n2} : n * w.d < 0

\* C13: BarycentricCoords::triangle returns None whenever a, b, c are
\* collinear and whenever p lies outside the triangle, and Some(weights) in
\* every other case.
TriangleNoneWhenCollinearOrOutside ==
    gout.op = "triangle" =>
        (gout.w = None <=>
            \/ Collinear(gin.a, gin.b, gin.c)
            \/ OutsideTriangle(gin.a, gin.b, gin.c, gin.p))

TolUlps == 32

WithinTolerance(x, i) ==
    x.d > 0 /\ Abs(x.n - i * x.d) * 2^MantBits <= TolUlps * x.d

VertexWeights(g) ==
    IF g.p = g.a THEN Weights(1, 0, 0)
    ELSE IF g.p = g.b THEN Weights(0, 1, 0)
    ELSE Weights(0, 0, 1)

EntriesOf(n) == UNION {Range(l.elems) : l \in Leaves(n)}

\* The logged bvh operations, replayed from the bvh n: each remove finds the
\* entry of its face with the box it is given, and each insert finds no
\* entry left under its handle.
RECURSIVE OpsInOrder(_, _)
OpsInOrder(n, ops) ==
    IF ops = <<>>
    THEN TRUE
    ELSE /\ Head(ops).op = "remove" =>
               Entry(Head(ops).e, Head(ops).bbox) \in EntriesOf(n)
         /\ Head(ops).op = "insert" =>
               \A en \in EntriesOf(n) : en.e # Head(ops).e
         /\ OpsInOrder(ApplyBvhOps(n, <<Head(ops)>>), Tail(ops))

\* C15: within one insert, every destroyed face is removed from the bvh,
\* with the box it was indexed with, before any face created in its place
\* is inserted, so that a removal never deletes the entry of a new face
\* that reuses the handle; when insert returns every live face has its
\* entry, with the box of its vertices.
RemovalBeforeInsertion ==
    [][(calls' = calls + 1 /\ mret'.op = "insert") =>
          /\ OpsInOrder(mesh.bvh, mret'.log)
          /\ ApplyBvhOps(mesh.bvh, mret'.log) = mesh'.bvh
          /\ \A f \in LiveIds(mesh'.faces) :
                Entry(f, FaceBbox(mesh', f)) \in EntriesOf(mesh'.bvh)]_vars

\* An insert whose split reused the handle of the face it destroyed, and
\* whose cascade destroyed the face under that handle again.
HandleReusedWithinInsert ==
    /\ mret.op = "insert"
    /\ \E i, j, k \in DOMAIN mret.log :
          /\ i < j /\ j < k
          /\ mret.log[i].op = "remove"
          /\ mret.log[j].op = "insert"
          /\ mret.log[k].op = "remove"
          /\ mret.log[i].e = mret.log[j].e
          /\ mret.log[j].e = mret.log[k].e

\* C16: the flip cascade terminates for every insert of a point of the
\* world box, the co-circular and collinear point sets included: an insert
\* that has entered its cascade returns.
CascadeTerminates == (cascade.pc = "cascade") ~> (cascade.pc = "idle")

\* The four corners of the world box, which lie on one circle, are in the
\* mesh, and the insert of the last of them flipped edges and returned.
CascadeReturnedOnCocircularSet ==
    /\ cascade.pc = "idle"
    /\ cascade.flipped
    /\ mret.op = "insert"
    /\ {Vec2(0, 0), Vec2(2, 0), Vec2(2, 2), Vec2(0, 2)}
          \subseteq Range(MeshVertices(mesh))
    /\ \A a \in {Vec2(0, 0), Vec2(2, 0), Vec2(2, 2), Vec2(0, 2)} :
          CirclePower(Circumcircle(Vec2(0, 0), Vec2(2, 0), Vec2(2, 2)), a) = 0

\* C17: while a freed slot exists, push takes the most recently freed one,
\* returns the handle that was removed from it (equal to the stale handle),
\* stores the value there and leaves the length of the vector; with no
\* freed slot it appends, and the vector grows by exactly one. No
\* operation shrinks the vector.
ReuseLastFreedFirst ==
    [][/\ Len(arena'.data) >= Len(arena.data)
       /\ (aret'.op = "push" /\ apanic' = "none") =>
             IF freed # << >>
             THEN /\ aret'.id = freed[Len(freed)]
                  /\ freed' = SubSeq(freed, 1, Len(freed) - 1)
                  /\ Len(arena'.data) = Len(arena.data)
                  /\ IsSome(ArenaGet(arena', aret'.id))
                  /\ ~IsSome(ArenaGet(arena, aret'.id))
             ELSE /\ aret'.id = Len(arena.data)
                  /\ Len(arena'.data) = Len(arena.data) + 1
                  /\ IsSome(ArenaGet(arena', aret'.id))]_vars

\* A push took the last freed slot while an earlier freed slot stays free.
ReusedWithFreeSlotLeft ==
    /\ aret.op = "push"
    /\ apanic = "none"
    /\ freed # << >>
    /\ \A k \in DOMAIN freed : ~IsSome(ArenaGet(arena, freed[k]))
    /\ IsSome(ArenaGet(arena, aret.id))

\* C18: after every Bvh::insert (and every other operation), a leaf whose
\* box has an area above MIN_BBOX_AREA holds at most LEAF_SIZE entries; a
\* leaf whose area is at most MIN_BBOX_AREA is never made a branch (every
\* branch has an area above MIN_BBOX_AREA) and may hold more.
LeafHoldsLeafSize ==
    \A n \in Nodes(bvh) :
        /\ (n.kind = "Leaf" /\ BboxArea(n.bbox) > MIN_BBOX_AREA) =>
              Len(n.elems) <= LEAF_SIZE
        /\ n.kind = "Branch" => BboxArea(n.bbox) > MIN_BBOX_AREA

\* An insert left a leaf at the area floor with more than LEAF_SIZE entries
\* and a leaf above the floor with exactly LEAF_SIZE.
FloorLeafOverfull ==
    /\ bret.op = "insert"
    /\ \E l \in Leaves(bvh) :
          BboxArea(l.bbox) <= MIN_BBOX_AREA /\ Len(l.elems) > LEAF_SIZE
    /\ \E l \in Leaves(bvh) :
          BboxArea(l.bbox) > MIN_BBOX_AREA /\ Len(l.elems) = LEAF_SIZE

\* The depth a tree can reach over a box of the given area: a split
\* quarters the area, and splits stop at MIN_BBOX_AREA.
RECURSIVE AreaDepth(_)
AreaDepth(area) ==
    IF area <= MIN_BBOX_AREA THEN 1 ELSE 1 + AreaDepth(area \div 4)

LeavesHoldWhatIntersects ==
    /\ \A e \in stored : \A l \in Leaves(bvh) :
          NodeIntersects(l, ElemBbox(e)) =>
              Entry(e, ElemBbox(e)) \in Range(l.elems)
    /\ bvh.kind = "Branch" =>
          \A l \in Leaves(bvh) : \A en \in Range(l.elems) :
              NodeIntersects(l, en.bbox)

\* After splits of splits an element is held by several leaves, each of
\* which its box intersects.
HeldBySeveralLeaves ==
    /\ NodeDepth(bvh) >= 3
    /\ \E e \in stored :
          Cardinality({l \in Leaves(bvh) :
                          Entry(e, ElemBbox(e)) \in Range(l.elems)}) >= 2

\* The entries of the leaf l that `contains` holds of at p.
HitsIn(l, p) == {k \in DOMAIN l.elems : ContainsClosure[l.elems[k].e, p]}

\* The number of entries `contains` holds of at p in the leaves below n
\* that satisfy keep and have every branch above them containing p.
RECURSIVE CountHits(_, _, _)
CountHits(n, p, keep) ==
    IF n.kind = "Leaf"
    THEN (IF keep[n] THEN Cardinality(HitsIn(n, p)) ELSE 0)
    ELSE IF BboxContains(n.bbox, p)
    THEN CountHits(n.children[1], p, keep) + CountHits(n.children[2], p, keep)
         + CountHits(n.children[3], p, keep) + CountHits(n.children[4], p, keep)
    ELSE 0

\* C21 as stated: enclosing(p, contains) evaluates `contains` only on the
\* entries of leaves whose bbox contains p, and yields no element from a
\* leaf whose bbox does not contain p.
EnclosingScansContainingLeaves ==
    bret.op = "enclosing" =>
        /\ \A l \in Range(ScannedLeaves(<<bvh>>, bret.e)) :
              l.elems # <<>> => BboxContains(l.bbox, bret.e)
        /\ Len(bret.out) =
              CountHits(bvh, bret.e,
                        [l \in Leaves(bvh) |-> BboxContains(l.bbox, bret.e)])

\* C21: enclosing(p, contains) descends below a branch only if the bbox of
\* the branch contains p, and then into all four children; every leaf it
\* reaches (the root when it is a leaf) is scanned whole, whether or not
\* its own bbox contains p: `contains` is evaluated on every entry of these
\* leaves, and each entry it holds of is yielded.
EnclosingScansBelowContainingBranches ==
    bret.op = "enclosing" =>
        /\ \A l \in Range(ScannedLeaves(<<bvh>>, bret.e)) :
              \A n \in Nodes(bvh) :
                 (n.kind = "Branch" /\ l \in Leaves(n)) =>
                    BboxContains(n.bbox, bret.e)
        /\ \A l \in Leaves(bvh) :
              (\A n \in Nodes(bvh) :
                  (n.kind = "Branch" /\ l \in Leaves(n)) =>
                     BboxContains(n.bbox, bret.e))
                 => l \in Range(ScannedLeaves(<<bvh>>, bret.e))
        /\ Len(bret.out) =
              CountHits(bvh, bret.e, [l \in Leaves(bvh) |-> TRUE])
        /\ \A k \in DOMAIN bret.out :
              ContainsClosure[bret.out[k], bret.e]

\* enclosing yielded an element out of a leaf below a branch whose bbox
\* does not contain the query point, more often than the leaves containing
\* the point hold it.
YieldedFromLeafNotContaining ==
    /\ bret.op = "enclosing"
    /\ bvh.kind = "Branch"
    /\ \E l \in Range(ScannedLeaves(<<bvh>>, bret.e)) :
          /\ ~BboxContains(l.bbox, bret.e)
          /\ HitsIn(l, bret.e) # {}
    /\ Len(bret.out) >
          CountHits(bvh, bret.e,
                    [l \in Leaves(bvh) |-> BboxContains(l.bbox, bret.e)])

\* The points of the half-unit grid in the box b.
PointsIn(b) ==
    {Vec2(x, y) : x \in b.min.x .. b.max.x, y \in b.min.y .. b.max.y}

\* parent.intersection(child) == Some(child), and the parent contains the
\* corners of the child: the assertions of prop_bbox_split_center.
ChildInParent(parent, child) ==
    /\ BboxIntersection(parent, child) = Some(child)
    /\ BboxContains(parent, child.min)
    /\ BboxContains(parent, child.max)

\* Every point of the parent lies in a child, and the areas of the
\* children add up to the area of the parent.
ChildrenCover(parent, children) ==
    /\ \A p \in PointsIn(parent) :
          \E i \in DOMAIN children : BboxContains(children[i], p)
    /\ BboxArea(children[1]) + BboxArea(children[2])
       + BboxArea(children[3]) + BboxArea(children[4]) = BboxArea(parent)

\* C22 as stated: the quadrants of a split around the center are each
\* contained in the parent, together cover it, and are pairwise disjoint:
\* no two of them intersect.
QuadrantsPairwiseDisjoint ==
    sbox.op = "split" =>
        /\ \A i \in 1..4 : ChildInParent(sbox.bbox, sbox.children[i])
        /\ ChildrenCover(sbox.bbox, sbox.children)
        /\ \A i, j \in 1..4 :
              i # j => BboxIntersection(sbox.children[i],
                                        sbox.children[j]) = None

\* C22: the quadrants of a split around the center are each contained in
\* the parent and together cover it, and any two of them meet only along
\* their boundary: their intersection is a box of area 0 (a shared edge or
\* the center alone), never None, since every quadrant has the center as a
\* corner.
QuadrantsTileParent ==
    sbox.op = "split" =>
        /\ \A i \in 1..4 : ChildInParent(sbox.bbox, sbox.children[i])
        /\ ChildrenCover(sbox.bbox, sbox.children)
        /\ \A i \in 1..4 :
              BboxContains(sbox.children[i], BboxCenter(sbox.bbox))
        /\ \A i, j \in 1..4 :
              i # j =>
                 LET meet == BboxIntersection(sbox.children[i],
                                              sbox.children[j])
                 IN  IsSome(meet) /\ BboxArea(meet.val) = 0

\* A box of positive area was split, and two of its quadrants share an
\* edge of positive length.
QuadrantsShareEdge ==
    /\ sbox.op = "split"
    /\ BboxArea(sbox.bbox) > 0
    /\ \E i, j \in 1..4 :
          /\ i # j
          /\ LET meet == BboxIntersection(sbox.children[i],
                                          sbox.children[j])
             IN  /\ IsSome(meet)
                 /\ meet.val.min # meet.val.max

\* The number of vertices of the mesh m, super-vertices included.
VertexCount(m) == Cardinality(LiveIds(m.vertices))

\* The number of faces of the mesh m, faces at a super-vertex included.
FaceCount(m) == Cardinality(LiveIds(m.faces))

\* The insert just made returned Ok of a vertex it created: its point was
\* not in the mesh.
InsertedNewPoint == mret'.op = "insert" /\ ~mret'.dup /\ mret'.ret.tag = "Ok"

\* C23: a fresh mesh holds 3 vertices and 1 face; every successful insert
\* of a point not yet in the mesh adds exactly one vertex and two faces,
\* however many edges it flips; an insert of a point already in the mesh
\* and a refused insert add none; and no vertex is ever removed. So after k
\* successful inserts of pairwise distinct points the mesh holds k + 3
\* vertices and 2k + 1 faces.
VerticesAndFacesCounted ==
    [][/\ VertexCount(mesh) >= 3
       /\ FaceCount(mesh) = 2 * (VertexCount(mesh) - 3) + 1
       /\ FaceCount(mesh') = 2 * (VertexCount(mesh') - 3) + 1
       /\ LiveIds(mesh.vertices) \subseteq LiveIds(mesh'.vertices)
       /\ \A v \in LiveIds(mesh.vertices) :
             At(mesh'.vertices, v).pos = At(mesh.vertices, v).pos
       /\ IF InsertedNewPoint
          THEN /\ VertexCount(mesh') = VertexCount(mesh) + 1
               /\ FaceCount(mesh') = FaceCount(mesh) + 2
               /\ Len(MeshVertices(mesh')) = Len(MeshVertices(mesh)) + 1
          ELSE /\ VertexCount(mesh') = VertexCount(mesh)
               /\ FaceCount(mesh') = FaceCount(mesh)]_vars

\* Three distinct points are in the mesh, the last of them put in with a
\* flip: 6 vertices and 7 faces.
ThreeInsertedWithFlip ==
    /\ mret.op = "insert"
    /\ ~mret.dup
    /\ mret.ret.tag = "Ok"
    /\ mret.flips >= 1
    /\ Len(MeshVertices(mesh)) = 3
    /\ VertexCount(mesh) = 6
    /\ FaceCount(mesh) = 7

\* The indices met from cur along next_free, at most n of them: the walk
\* ends at None, and stops on an index that is out of range or whose slot
\* is Occupied.
RECURSIVE FreeListFrom(_, _, _)
FreeListFrom(a, cur, n) ==
    IF cur.tag = "None" \/ n = 0
    THEN <<>>
    ELSE IF ~InRange(a, cur.val)
    THEN << cur.val >>
    ELSE IF Slot(a, cur.val).kind = "Occupied"
    THEN << cur.val >>
    ELSE << cur.val >> \o FreeListFrom(a, Slot(a, cur.val).next_free, n - 1)

\* The free slots of the arena a.
FreeSlots(a) == {ix \in 0..(Len(a.data) - 1) : Slot(a, ix).kind = "Free"}

\* The walk from first_free meets only Free slots in range, none of them
\* twice, and all of them: with one step more than there are slots allowed,
\* it can only have ended at None.
FreeListWellFormed(a) ==
    LET walk == FreeListFrom(a, a.first_free, Len(a.data) + 1)
    IN  /\ \A k \in DOMAIN walk :
              InRange(a, walk[k]) /\ Slot(a, walk[k]).kind = "Free"
        /\ \A j, k \in DOMAIN walk : j # k => walk[j] # walk[k]
        /\ Range(walk) = FreeSlots(a)
        /\ Len(walk) <= Len(a.data)

\* C24: in every reachable state the free list of the arena is well
\* formed: the walk from first_free along next_free visits every Free slot
\* exactly once, no Occupied slot and no index out of range, and ends at
\* None. So no push reaches panic!("bug") or indexes out of bounds, and a
\* remove swaps out a slot only if it is Occupied, and then returns its
\* value (its unreachable!() arm is not taken).
FreeListIsWellFormed ==
    /\ FreeListWellFormed(arena)
    /\ apanic \notin {"bug", "index"}
    /\ \A v \in ArenaVals : ArenaPush(arena, v).panic = "none"
    /\ \A ix \in ArenaIds :
          ArenaRemove(arena, ix).arena # arena
             => /\ InRange(arena, ix)
                /\ Slot(arena, ix).kind = "Occupied"
                /\ ArenaRemove(arena, ix).out = Some(Slot(arena, ix).val)

\* After three pushes and two removes, the free list chains two free
\* slots and one slot is occupied.
FreeListOfTwo ==
    /\ aret.op = "remove"
    /\ aret.valid
    /\ Cardinality(FreeSlots(arena)) = 2
    /\ Len(FreeListFrom(arena, arena.first_free, Len(arena.data) + 1)) = 2
    /\ Len(arena.data) = 3

=============================================================================
